---- MODULE Spec2Model ----
(***************************************************************************)
(* super-cd: the render loop of src/main.rs (fn render, fn main) together  *)
(* with the event multiplexer util::event::Events it consumes.  The        *)
(* multiplexer's source is not part of src/main.rs; it is modelled from    *)
(* section 4.1 of the specification (two producers, one ordered channel,   *)
(* a keyboard failure surfaced to next()).                                 *)
(***************************************************************************)
EXTENDS Integers, Sequences, FiniteSets, TLC

\* ---------------------------------------------------------------- bounds
\* number of keys the keyboard producer emits in one run
MaxKeys == 3
\* number of keys the keyboard producer emits in a run checked for liveness
MaxLiveKeys == 2
\* number of ticks the timer producer emits in one run
MaxTicks == 1

\* ---------------------------------------------------------------- keys
\* Key::Char('\n'), Key::Char('q'), ordinary Key::Char(c), Key::Backspace and
\* a key no arm of the match names (Key::Left).
Newline == "\n"
QuitChar == "q"
Chars == {"a", "b", QuitChar, Newline}
KeyChar(c) == [kind |-> "Char", c |-> c]
KeyBackspace == [kind |-> "Backspace", c |-> "-"]
KeyLeft == [kind |-> "Left", c |-> "-"]
Keys == {KeyChar(c) : c \in Chars} \cup {KeyBackspace, KeyLeft}

\* Event::Input(key), Event::Tick; Closed is the channel's terminal error item
EventInput(k) == [type |-> "Input", key |-> k]
EventTick == [type |-> "Tick", key |-> KeyLeft]
Closed == [type |-> "Closed", key |-> KeyLeft]

\* the collect() temporary of line 126 when no commit is in progress
NoTmp == <<"none">>
Free == "free"
Loop == "loop"

VARIABLES
  pc,             \* position of the foreground thread (main, render)
  input,          \* app.input: the String behind the Mutex
  messages,       \* app.messages: the Vec<String> behind the Mutex
  input_lock,     \* holder of app.input's Mutex
  messages_lock,  \* holder of app.messages' Mutex
  tmp,            \* the String collected from app_input.drain(..), line 126
  termMode,       \* terminal mode: "orig" or "raw" (raw + alternate screen)
  screen,         \* what the last terminal.draw put on the screen
  cursorCol,      \* column of the last Goto
  renders,        \* number of frames terminal.draw has completed
  logLast,        \* the value last handed to info!
  logCount,       \* number of info! calls made
  logErr,         \* the appender failed inside the info! call in progress
  result,         \* render's Result: "none", "Ok", "Err"
  exitStatus,     \* process exit: "none", "success", "error"
  started,        \* Events::new() has started the producers
  chan,           \* the multiplexer's channel
  kbd,            \* keyboard producer: "running" or "failed"
  emittedK,       \* keys the keyboard producer has sent, in order
  emittedT,       \* number of ticks the timer producer has sent
  consumed,       \* events returned by events.next() as Ok, in order
  lastEvent,      \* the event of the current iteration's match, or Closed
  preInput,       \* input when lastEvent was received
  preMessages,    \* messages when lastEvent was received
  runBase,        \* input at the start of the current run of pushes
  runChars        \* characters pushed since then

vars == <<pc, input, messages, input_lock, messages_lock, tmp, termMode,
          screen, cursorCol, renders, logLast, logCount, logErr, result, exitStatus, started, chan, kbd,
          emittedK, emittedT, consumed, lastEvent, preInput, preMessages,
          runBase, runChars>>

appVars == <<input, messages, tmp>>
lockVars == <<input_lock, messages_lock>>
termVars == <<termMode, screen, cursorCol, renders>>
logVars == <<logLast, logCount, logErr>>
procVars == <<result, exitStatus>>
muxVars == <<started, chan, kbd, emittedK, emittedT>>
histVars == <<consumed, lastEvent, preInput, preMessages, runBase, runChars>>

\* ---------------------------------------------------------------- App
\* a push that inserts at the front (String::insert(0, c))
PushChar_front(buf, c) == <<c>> \o buf

\* String::push
PushChar(buf, c) == Append(buf, c)

\* a backspace that clears the buffer (String::clear)
PopChar_clear(buf) == <<>>

\* String::pop: removes the last char, None (no change) on an empty string
PopChar(buf) == IF Len(buf) = 0 THEN buf ELSE SubSeq(buf, 1, Len(buf) - 1)

\* a commit that copies the buffer without draining it (clone)
DrainAll_keep(buf) == [collected |-> buf, rest |-> buf]

\* app_input.drain(..).collect(): the whole content, leaving the string empty
DrainAll(buf) == [collected |-> buf, rest |-> <<>>]

\* a commit that inserts at the front (Vec::insert(0, m))
PushMessage_front(msgs, m) == <<m>> \o msgs

\* Vec::push
PushMessage(msgs, m) == Append(msgs, m)

\* UnicodeWidthStr::width of the buffer, as u16 (line 116)
U16 == 65536
GotoBase == 4
GotoCol(buf) == (GotoBase + Len(buf)) % U16

\* the positions of the foreground thread inside the loop of lines 72-142
LoopPcs == {"lock_input_draw", "lock_messages_draw", "draw", "unlock_draw",
            "lock_input_event", "lock_messages_event", "goto", "next",
            "commit_push", "log", "unlock_event"}

Init ==
  /\ pc = "log_init"
  /\ input = <<>>
  /\ messages = <<>>
  /\ input_lock = Free
  /\ messages_lock = Free
  /\ tmp = NoTmp
  /\ termMode = "orig"
  /\ screen = [input |-> <<>>, messages |-> <<>>]
  /\ cursorCol = 0
  /\ renders = 0
  /\ logLast = <<>>
  /\ logCount = 0
  /\ logErr = FALSE
  /\ result = "none"
  /\ exitStatus = "none"
  /\ started = FALSE
  /\ chan = <<>>
  /\ kbd = "running"
  /\ emittedK = <<>>
  /\ emittedT = 0
  /\ consumed = <<>>
  /\ lastEvent = Closed
  /\ preInput = <<>>
  /\ preMessages = <<>>
  /\ runBase = <<>>
  /\ runChars = <<>>

\* ---------------------------------------------------------------- main
\* main, lines 149-159: the log file and log4rs configuration; each ? returns
\* the error from main before render is called.
LogInit ==
  /\ pc = "log_init"
  /\ \E ok \in BOOLEAN :
       IF ok
         THEN pc' = "raw_mode" /\ exitStatus' = exitStatus
         ELSE pc' = "exited" /\ exitStatus' = "error"
  /\ UNCHANGED <<appVars, lockVars, termVars, result, muxVars, histVars, logVars>>

\* leaving render with result r (line 143 after the break, or a ? taken on
\* an error): the guards still alive are dropped, then events and terminal;
\* dropping the terminal restores its mode
Return(r) ==
  /\ pc' = "returned"
  /\ result' = r
  /\ input_lock' = Free
  /\ messages_lock' = Free
  /\ termMode' = "orig"

\* a ? of render taken on an error
Fail == Return("Err")

\* render, line 63 (64-65 wrap the raw terminal and cannot fail)
IntoRawMode ==
  /\ pc = "raw_mode"
  /\ \E ok \in BOOLEAN :
       IF ok
         THEN /\ pc' = "terminal_new"
              /\ termMode' = "raw"
              /\ UNCHANGED <<lockVars, result>>
         ELSE Fail
  /\ UNCHANGED <<appVars, screen, cursorCol, renders, exitStatus, muxVars,
                 histVars, logVars>>

\* render, lines 66-67
TerminalNew ==
  /\ pc = "terminal_new"
  /\ \E ok \in BOOLEAN :
       IF ok
         THEN pc' = "events_new" /\ UNCHANGED <<lockVars, termMode, result>>
         ELSE Fail
  /\ UNCHANGED <<appVars, screen, cursorCol, renders, exitStatus, muxVars,
                 histVars, logVars>>

\* render, line 71: Events::new() starts the two producers
EventsNew ==
  /\ pc = "events_new"
  /\ pc' = "lock_input_draw"
  /\ started' = TRUE
  /\ UNCHANGED <<appVars, lockVars, termVars, procVars, chan, kbd, emittedK,
                 emittedT, histVars, logVars>>

\* ---------------------------------------------------------------- draw block
\* Mutex::lock blocks until the mutex is free
LockInput(at, next) ==
  /\ pc = at
  /\ input_lock = Free
  /\ input_lock' = Loop
  /\ pc' = next
  /\ UNCHANGED <<appVars, messages_lock, termVars, procVars, muxVars, histVars, logVars>>

LockMessages(at, next) ==
  /\ pc = at
  /\ messages_lock = Free
  /\ messages_lock' = Loop
  /\ pc' = next
  /\ UNCHANGED <<appVars, input_lock, termVars, procVars, muxVars, histVars, logVars>>

\* a block that only drops the messages guard (the input guard outlives it)
Unlock_keepInput(at, next) ==
  /\ pc = at
  /\ messages_lock' = Free
  /\ logErr' = FALSE
  /\ pc' = next
  /\ UNCHANGED <<appVars, input_lock, termVars, procVars, muxVars, histVars,
                 logLast, logCount>>

\* the guards of a block are dropped at its closing brace; an appender
\* error of the block's info! call was dropped when the macro returned
Unlock(at, next) ==
  /\ pc = at
  /\ input_lock' = Free
  /\ messages_lock' = Free
  /\ logErr' = FALSE
  /\ pc' = next
  /\ UNCHANGED <<appVars, termVars, procVars, muxVars, histVars, logLast, logCount>>

\* lines 75-76
LockInputDraw == LockInput("lock_input_draw", "lock_messages_draw")
\* lines 78-79
LockMessagesDraw == LockMessages("lock_messages_draw", "draw")

\* lines 81-102: terminal.draw renders the input box and the message list
Draw ==
  /\ pc = "draw"
  /\ \E ok \in BOOLEAN :
       IF ok
         THEN /\ pc' = "unlock_draw"
              /\ screen' = [input |-> input, messages |-> messages]
              /\ renders' = renders + 1
              /\ UNCHANGED <<lockVars, termMode, result>>
         ELSE Fail /\ UNCHANGED <<screen, renders>>
  /\ UNCHANGED <<appVars, cursorCol, exitStatus, muxVars, histVars, logVars>>

\* line 103
UnlockDraw == Unlock("unlock_draw", "lock_input_event")

\* ---------------------------------------------------------------- event block
\* lines 106-107
LockInputEvent == LockInput("lock_input_event", "lock_messages_event")
\* lines 109-110
LockMessagesEvent == LockMessages("lock_messages_event", "goto")

\* lines 113-117: write!(terminal.backend_mut(), Goto(4 + width, 4))?
Goto ==
  /\ pc = "goto"
  /\ \E ok \in BOOLEAN :
       IF ok
         THEN /\ pc' = "next"
              /\ cursorCol' = GotoCol(input)
              /\ UNCHANGED <<lockVars, termMode, result>>
         ELSE Fail /\ cursorCol' = cursorCol
  /\ UNCHANGED <<appVars, screen, renders, exitStatus, muxVars, histVars, logVars>>

\* a channel that hands out the newest item first
Recv_newest(ch) == [ev |-> ch[Len(ch)], rest |-> SubSeq(ch, 1, Len(ch) - 1)]

\* events.next() (util::event): the oldest unread item of the channel; Err
\* for the channel's terminal item, else Ok
Recv(ch) == [ev |-> Head(ch), rest |-> Tail(ch)]
NextIsErr(ev) == ev = Closed

\* the match with the generic Key::Char(c) arm first: 'q' and '\n' are pushed
Classify_late(ev) ==
  IF ev.type # "Input" THEN "none"
  ELSE IF ev.key.kind = "Char" THEN "push"
  ELSE IF ev.key = KeyBackspace THEN "pop"
  ELSE "none"

\* the match without its Key::Char('\n') arm: Enter reaches Key::Char(c)
Classify_pushNewline(ev) ==
  IF ev.type # "Input" THEN "none"
  ELSE IF ev.key = KeyChar(QuitChar) THEN "quit"
  ELSE IF ev.key.kind = "Char" THEN "push"
  ELSE IF ev.key = KeyBackspace THEN "pop"
  ELSE "none"

\* the arm of the match of lines 120-137 an event takes
Classify(ev) ==
  IF ev.type # "Input" THEN "none"
  ELSE IF ev.key = KeyChar(QuitChar) THEN "quit"
  ELSE IF ev.key = KeyChar(Newline) THEN "commit"
  ELSE IF ev.key.kind = "Char" THEN "push"
  ELSE IF ev.key = KeyBackspace THEN "pop"
  ELSE "none"

\* an Err of events.next() falling into the catch-all arm
RecvErr_ignored ==
  /\ pc' = "log"
  /\ UNCHANGED <<appVars, lockVars, termMode, result, histVars>>

\* line 120, events.next()? returning Err: render returns the error
RecvErr ==
  /\ Fail
  /\ UNCHANGED <<appVars, histVars>>

\* lines 122-124
Quit ==
  /\ Return("Ok")
  /\ UNCHANGED <<appVars, runBase, runChars>>

\* a commit whose input guard is a temporary, dropped after the drain
CommitDrain_unlock ==
  /\ pc' = "commit_push"
  /\ tmp' = DrainAll(input).collected
  /\ input' = DrainAll(input).rest
  /\ runBase' = DrainAll(input).rest
  /\ runChars' = <<>>
  /\ input_lock' = Free
  /\ UNCHANGED <<messages, messages_lock, termMode, result>>

\* line 126, first half: app_input.drain(..).collect() builds the new String
CommitDrain ==
  /\ pc' = "commit_push"
  /\ tmp' = DrainAll(input).collected
  /\ input' = DrainAll(input).rest
  /\ runBase' = DrainAll(input).rest
  /\ runChars' = <<>>
  /\ UNCHANGED <<messages, lockVars, termMode, result>>

\* a character arm that runs twice for one event
Push_twice(c) ==
  /\ pc' = "log"
  /\ input' = PushChar(PushChar(input, c), c)
  /\ runChars' = Append(Append(runChars, c), c)
  /\ UNCHANGED <<messages, tmp, lockVars, termMode, result, runBase>>

\* lines 128-130
Push(c) ==
  /\ pc' = "log"
  /\ input' = PushChar(input, c)
  /\ runChars' = Append(runChars, c)
  /\ UNCHANGED <<messages, tmp, lockVars, termMode, result, runBase>>

\* a backspace that treats an empty buffer as an error (pop().ok_or(..)?)
Pop_unwrap ==
  IF input = <<>>
    THEN Fail /\ UNCHANGED <<appVars, runBase, runChars>>
    ELSE /\ pc' = "log"
         /\ input' = PopChar(input)
         /\ runBase' = PopChar(input)
         /\ runChars' = <<>>
         /\ UNCHANGED <<messages, tmp, lockVars, termMode, result>>

\* lines 131-133
Pop ==
  /\ pc' = "log"
  /\ input' = PopChar(input)
  /\ runBase' = PopChar(input)
  /\ runChars' = <<>>
  /\ UNCHANGED <<messages, tmp, lockVars, termMode, result>>

\* a catch-all arm that resets the input box
Ignore_clear ==
  /\ pc' = "log"
  /\ input' = <<>>
  /\ UNCHANGED <<messages, tmp, lockVars, termMode, result, runBase, runChars>>

\* lines 134 and 136
Ignore ==
  /\ pc' = "log"
  /\ UNCHANGED <<appVars, lockVars, termMode, result, runBase, runChars>>

\* lines 120-137: receive one event (blocking while the channel is empty)
\* and run its arm
HandleEvent ==
  /\ pc = "next"
  /\ chan # <<>>
  /\ chan' = Recv(chan).rest
  /\ LET ev == Recv(chan).ev IN
       IF NextIsErr(ev)
         THEN RecvErr
         ELSE /\ consumed' = Append(consumed, ev)
              /\ lastEvent' = ev
              /\ preInput' = input
              /\ preMessages' = messages
              /\ CASE Classify(ev) = "quit" -> Quit
                   [] Classify(ev) = "commit" -> CommitDrain
                   [] Classify(ev) = "push" -> Push(ev.key.c)
                   [] Classify(ev) = "pop" -> Pop
                   [] OTHER -> Ignore
  /\ UNCHANGED <<screen, cursorCol, renders, logVars, exitStatus, started, kbd,
                 emittedK, emittedT>>

\* a commit that skips an empty buffer
CommitPush_skipEmpty ==
  /\ pc = "commit_push"
  /\ messages' = (IF tmp = <<>> THEN messages ELSE PushMessage(messages, tmp))
  /\ tmp' = NoTmp
  /\ pc' = "log"
  /\ UNCHANGED <<input, lockVars, termVars, procVars, muxVars, histVars, logVars>>

\* line 126, second half: app_messages.push(<the collected String>)
CommitPush ==
  /\ pc = "commit_push"
  /\ messages' = PushMessage(messages, tmp)
  /\ tmp' = NoTmp
  /\ pc' = "log"
  /\ UNCHANGED <<input, lockVars, termVars, procVars, muxVars, histVars, logVars>>

\* a log statement whose failure is propagated with ?
Log_fatal ==
  /\ pc = "log"
  /\ \E ok \in BOOLEAN :
       /\ logLast' = input
       /\ logCount' = logCount + 1
       /\ logErr' = ~ok
       /\ IF ok
            THEN pc' = "unlock_event" /\ UNCHANGED <<lockVars, termMode, result>>
            ELSE Fail
  /\ UNCHANGED <<appVars, screen, cursorCol, renders, exitStatus, muxVars, histVars>>

\* line 138: info!("{}", app_input); the log macro returns nothing, so
\* whether the appender could write does not reach the loop
Log ==
  /\ pc = "log"
  /\ \E ok \in BOOLEAN :
       /\ pc' = "unlock_event"
       /\ logLast' = input
       /\ logCount' = logCount + 1
       /\ logErr' = ~ok
       /\ UNCHANGED <<lockVars, termMode, result>>
  /\ UNCHANGED <<appVars, screen, cursorCol, renders, exitStatus, muxVars, histVars>>

\* line 139
UnlockEvent == Unlock("unlock_event", "lock_input_draw")

\* the exit status main gives for render's result: line 165 is the statement
\* render(app); and line 167 returns Ok(())
MainStatus(r) == "success"

\* main, lines 165-167
MainReturn ==
  /\ pc = "returned"
  /\ exitStatus' = MainStatus(result)
  /\ pc' = "exited"
  /\ UNCHANGED <<appVars, lockVars, termVars, result, muxVars, histVars, logVars>>

\* ---------------------------------------------------------------- producers
\* (util::event, modelled from section 4.1 of the specification)
\* the producers feed the channel for as long as render holds its Events
ProducersLive == started /\ pc \in LoopPcs

\* mpsc send: the channel is ordered, a send appends
Send(ch, ev) == Append(ch, ev)

\* the keyboard producer decodes a key and emits KeyPress
KbdEmitUpTo(n) ==
  /\ ProducersLive
  /\ kbd = "running"
  /\ Len(emittedK) < n
  /\ \E k \in Keys :
       /\ chan' = Send(chan, EventInput(k))
       /\ emittedK' = Append(emittedK, k)
  /\ UNCHANGED <<pc, appVars, lockVars, termVars, procVars, started, kbd,
                 emittedT, histVars, logVars>>

KbdEmit == KbdEmitUpTo(MaxKeys)
KbdEmitLive == KbdEmitUpTo(MaxLiveKeys)

\* the keys of the end-to-end scenario: h, i, Enter, x, Backspace, Enter
Script == <<KeyChar("h"), KeyChar("i"), KeyChar(Newline), KeyChar("x"),
            KeyBackspace, KeyChar(Newline)>>

\* the keyboard producer fed with the keys of Script, in order
KbdScript ==
  /\ ProducersLive
  /\ kbd = "running"
  /\ Len(emittedK) < Len(Script)
  /\ chan' = Send(chan, EventInput(Script[Len(emittedK) + 1]))
  /\ emittedK' = Append(emittedK, Script[Len(emittedK) + 1])
  /\ UNCHANGED <<pc, appVars, lockVars, termVars, procVars, started, kbd,
                 emittedT, histVars, logVars>>

\* the keyboard device read fails: the producer terminates and the
\* multiplexer surfaces a terminal error to next()
KbdFail ==
  /\ ProducersLive
  /\ kbd = "running"
  /\ kbd' = "failed"
  /\ chan' = Send(chan, Closed)
  /\ UNCHANGED <<pc, appVars, lockVars, termVars, procVars, started,
                 emittedK, emittedT, histVars, logVars>>

\* the timer producer emits Tick after each sleep
TickEmit ==
  /\ ProducersLive
  /\ emittedT < MaxTicks
  /\ chan' = Send(chan, EventTick)
  /\ emittedT' = emittedT + 1
  /\ UNCHANGED <<pc, appVars, lockVars, termVars, procVars, started, kbd,
                 emittedK, histVars, logVars>>

\* ---------------------------------------------------------------- system
Foreground ==
  \/ LogInit
  \/ IntoRawMode
  \/ TerminalNew
  \/ EventsNew
  \/ LockInputDraw
  \/ LockMessagesDraw
  \/ Draw
  \/ UnlockDraw
  \/ LockInputEvent
  \/ LockMessagesEvent
  \/ Goto
  \/ HandleEvent
  \/ CommitPush
  \/ Log
  \/ UnlockEvent
  \/ MainReturn

Next ==
  \/ Foreground
  \/ KbdEmit
  \/ KbdFail
  \/ TickEmit

Spec == Init /\ [][Next]_vars

\* the foreground thread is scheduled as long as it can take a step
NextLive ==
  \/ Foreground
  \/ KbdEmitLive
  \/ KbdFail
  \/ TickEmit

LiveSpec == Init /\ [][NextLive]_vars /\ WF_vars(Foreground)

\* the same runs with no fairness assumed
ShortSpec == Init /\ [][NextLive]_vars

\* the program run on the keys of Script
NextScript ==
  \/ Foreground
  \/ KbdScript
  \/ KbdFail
  \/ TickEmit

ScriptSpec == Init /\ [][NextScript]_vars

TypeOK ==
  /\ input \in Seq(Chars)
  /\ Len(messages) <= MaxKeys
  /\ input_lock \in {Free, Loop}
  /\ messages_lock \in {Free, Loop}
  /\ result \in {"none", "Ok", "Err"}
  /\ exitStatus \in {"none", "success", "error"}

\* ---------------------------------------------------------------- claims
Last(s) == s[Len(s)]
IsPrefix(s, t) == Len(s) <= Len(t) /\ SubSeq(t, 1, Len(s)) = s
\* Foreground Loop states of section 4.3
Running == pc \in LoopPcs
Terminated == pc \notin LoopPcs /\ result = "Ok"
\* this step is events.next() returning ev
Receives(ev) == consumed' # consumed /\ Last(consumed') = ev
KeysOf(evs) ==
  LET ks == SelectSeq(evs, LAMBDA e : e.type = "Input")
  IN [i \in 1..Len(ks) |-> ks[i].key]
TicksOf(evs) == Len(SelectSeq(evs, LAMBDA e : e.type = "Tick"))
EventsOf(evs) == SelectSeq(evs, LAMBDA e : e # Closed)

\* C1: once the newline event's arm has run (the loop is at the log statement),
\* history is the pre-commit history followed by the pre-commit buffer and
\* the buffer is empty.
C1_CommitMovesBuffer ==
  (pc = "log" /\ lastEvent = EventInput(KeyChar(Newline)))
    => (messages = Append(preMessages, preInput) /\ input = <<>>)

C1_Witness ==
  /\ pc = "log"
  /\ lastEvent = EventInput(KeyChar(Newline))
  /\ preInput # <<>>
  /\ preMessages # <<>>

\* C2: the events next() has returned followed by the events still in the
\* channel are, per producer, exactly what that producer emitted, in order,
\* and their number is the number emitted: nothing lost, duplicated or
\* reordered within a producer's stream.
C2_NoLossNoDupNoReorder ==
  LET delivered == consumed \o chan IN
  /\ KeysOf(delivered) = emittedK
  /\ TicksOf(delivered) = emittedT
  /\ Len(EventsOf(delivered)) = Len(emittedK) + emittedT
  /\ IsPrefix(KeysOf(consumed), emittedK)

C2_Witness ==
  /\ Len(KeysOf(consumed)) = MaxKeys
  /\ TicksOf(consumed) = MaxTicks
  /\ consumed[1].type = "Tick"
  /\ \E i, j \in 1..Len(emittedK) : emittedK[i] # emittedK[j]

\* C3: the step that receives KeyPress('q') takes the loop from Running to
\* Terminated without changing buffer or history, and once Terminated the
\* loop stays Terminated and buffer and history never change.
C3_QuitTerminates ==
  [][/\ Receives(EventInput(KeyChar(QuitChar)))
          => (Running /\ Terminated' /\ input' = input /\ messages' = messages)
     /\ Terminated
          => (Terminated' /\ input' = input /\ messages' = messages)]_vars

C3_Witness ==
  /\ pc = "exited"
  /\ Terminated
  /\ Last(consumed) = EventInput(KeyChar(QuitChar))
  /\ input # <<>>
  /\ messages # <<>>

\* C4: the loop holds neither lock while it draws, moves the cursor or is
\* blocked in next().
C4_NoLockAcrossBlockingCall ==
  pc \in {"draw", "goto", "next"} => (input_lock = Free /\ messages_lock = Free)

C6_FatalErrorExitsWithError ==
  (pc = "exited" /\ result = "Err")
    => (exitStatus = "error" /\ termMode = "orig")

\* C7: whenever the state can be read (the render pass is drawing, or one of
\* the two locks is free for another use-site to take), no commit is half
\* done: the buffer is never cleared with its text not yet in history.
HalfCommitted == tmp # NoTmp
Readable == pc = "draw" \/ input_lock = Free \/ messages_lock = Free
C7_CommitAtomicForObservers == ~(HalfCommitted /\ Readable)

C7_Witness ==
  /\ pc = "commit_push"
  /\ HalfCommitted
  /\ tmp # <<>>
  /\ input = <<>>
  /\ messages # <<>>

\* C8: during a run of pushes with no commit or backspace in between, the
\* buffer is the buffer before the run followed by the pushed characters in
\* order, the snapshot drawn next shows exactly that, and history is what
\* it was before the last push.
IsPushEvent(ev) == ev.type = "Input" /\ ev.key \in {KeyChar("a"), KeyChar("b")}
C8_PushAppendsInOrder ==
  (runChars # <<>>)
    => /\ input = runBase \o runChars
       /\ pc = "unlock_draw" => screen.input = runBase \o runChars
       /\ IsPushEvent(lastEvent) => messages = preMessages

C8_Witness ==
  /\ pc = "unlock_draw"
  /\ runChars = <<"a", "b">>
  /\ screen.input = <<"a", "b">>
  /\ messages # <<>>

\* C9: the step that receives KeyPress(backspace) removes exactly the last
\* character of a non-empty buffer and leaves an empty buffer empty; in
\* both cases history is unchanged, no error is returned and the loop goes
\* on to its log statement.
C9_PopRemovesLastOrNothing ==
  [][Receives(EventInput(KeyBackspace))
       => /\ input' = (IF input = <<>> THEN <<>>
                       ELSE SubSeq(input, 1, Len(input) - 1))
          /\ messages' = messages
          /\ result' = "none"
          /\ pc' = "log"]_vars

C9_Witness ==
  /\ pc = "log"
  /\ lastEvent = EventInput(KeyBackspace)
  /\ preInput = <<>>
  /\ input = <<>>
  /\ messages # <<>>

\* C10: every step leaves the history it found as a prefix of the history it
\* leaves: entries are only ever appended.
C10_HistoryAppendOnly == [][IsPrefix(messages, messages')]_vars

C10_Witness ==
  /\ Len(messages) >= 2
  /\ messages[1] # messages[2]

\* C11: the buffer holds no newline character in any reachable state.
C11_BufferHasNoNewline == \A i \in 1..Len(input) : input[i] # Newline

C11_Witness ==
  /\ \E i \in 1..Len(consumed) : consumed[i] = EventInput(KeyChar(Newline))
  /\ lastEvent = EventInput(KeyChar(Newline))
  /\ pc = "unlock_draw"
  /\ messages # <<>>
  /\ Last(messages) # <<>>

\* C12: the step that receives a Tick or a key no arm names changes neither
\* buffer nor history, returns no error and takes the loop to its log
\* statement; and when the loop receives its next event after such an event,
\* a frame showing the current state has been drawn in between.
IsIgnoredEvent(ev) == ev \in {EventTick, EventInput(KeyLeft)}
C12_TickAndUnknownKeyChangeNothing ==
  [][/\ (Receives(EventTick) \/ Receives(EventInput(KeyLeft)))
          => /\ input' = input
             /\ messages' = messages
             /\ result' = "none"
             /\ pc' = "log"
     /\ (consumed' # consumed /\ consumed # <<>> /\ IsIgnoredEvent(Last(consumed)))
          => /\ renders = Len(consumed) + 1
             /\ screen = [input |-> input, messages |-> messages]]_vars

C12_Witness ==
  /\ Len(consumed) >= 3
  /\ consumed[Len(consumed) - 2] = EventTick
  /\ consumed[Len(consumed) - 1] = EventInput(KeyLeft)
  /\ renders = Len(consumed)
  /\ input # <<>>
  /\ Running

\* C13: a step that takes the loop out of Running is the receipt of
\* KeyPress('q') or a failed terminal write (the draw or the cursor move).
LeavesRunning == Running /\ ~Running'
ByQuit == Receives(EventInput(KeyChar(QuitChar))) /\ result' = "Ok"
ByTerminalFailure == pc \in {"draw", "goto"} /\ result' = "Err"
C13_OnlyQuitOrTerminalFailureEndsLoop ==
  [][LeavesRunning => (ByQuit \/ ByTerminalFailure)]_vars

\* C13 as amended: a step that takes the loop out of Running is the receipt
\* of KeyPress('q'), a failed terminal write, or next() returning an error.
ByInputFailure ==
  pc = "next" /\ chan # <<>> /\ Head(chan) = Closed /\ result' = "Err"
C13_OnlyQuitOrFatalFailureEndsLoop ==
  [][LeavesRunning => (ByQuit \/ ByTerminalFailure \/ ByInputFailure)]_vars

C13_Witness ==
  /\ pc = "returned"
  /\ result = "Err"
  /\ kbd = "failed"
  /\ chan = <<>>
  /\ Len(consumed) >= 2

\* C14: under fair scheduling of the foreground thread, once KeyPress('q')
\* is in the channel the loop eventually receives it, is Terminated and the
\* process has exited with status 0, unless render has returned a fatal error
\* first.
QuitQueued == \E i \in 1..Len(chan) : chan[i] = EventInput(KeyChar(QuitChar))
QuitExit ==
  /\ pc = "exited"
  /\ Terminated
  /\ exitStatus = "success"
  /\ Last(consumed) = EventInput(KeyChar(QuitChar))
C14_QuitEventuallyExitsZero == QuitQueued ~> (QuitExit \/ result = "Err")

C14_Witness ==
  /\ QuitExit
  /\ Len(consumed) >= 3
  /\ TicksOf(consumed) >= 1
  /\ chan # <<>>

\* C15: while the loop runs, buffer and history are exactly what the events
\* received so far produce, each applied once and in order; every completed
\* frame shows the state produced by the events received before it; frames
\* and events alternate, one event per iteration: after the draw there is
\* one more frame than events, after the event as many frames as events.
RECURSIVE Replay(_)
Replay(evs) ==
  IF evs = <<>> THEN [input |-> <<>>, messages |-> <<>>]
  ELSE LET st == Replay(SubSeq(evs, 1, Len(evs) - 1))
           e == evs[Len(evs)]
       IN IF e = EventInput(KeyChar(Newline))
            THEN [input |-> <<>>, messages |-> Append(st.messages, st.input)]
          ELSE IF e = EventInput(KeyBackspace)
            THEN [input |-> IF st.input = <<>> THEN <<>>
                            ELSE SubSeq(st.input, 1, Len(st.input) - 1),
                  messages |-> st.messages]
          ELSE IF IsPushEvent(e)
            THEN [input |-> Append(st.input, e.key.c), messages |-> st.messages]
          ELSE st
AfterDrawPcs == {"unlock_draw", "lock_input_event", "lock_messages_event",
                 "goto", "next"}
AfterEventPcs == {"commit_push", "log", "unlock_event", "lock_input_draw",
                  "lock_messages_draw", "draw"}
C15_RenderShowsDeliveredEvents ==
  /\ (Running /\ tmp = NoTmp)
       => [input |-> input, messages |-> messages] = Replay(consumed)
  /\ renders >= 1 => screen = Replay(SubSeq(consumed, 1, renders - 1))
  /\ pc \in AfterDrawPcs => renders = Len(consumed) + 1
  /\ pc \in AfterEventPcs => renders = Len(consumed)

C15_Witness ==
  /\ pc = "next"
  /\ renders = 4
  /\ Len(consumed) = 3
  /\ screen.input # <<>>
  /\ screen.messages # <<>>

\* C16: on the keys h, i, Enter, x, Backspace, Enter the buffer and the
\* history after each key are "h", "hi", then "" with ["hi"], "x", "", and
\* at the end "" with ["hi", ""]; the frame drawn after the second key shows
\* "hi"; and a commit of an empty buffer appends an empty entry and leaves
\* the buffer empty.
ExpectedInput == << <<"h">>, <<"h", "i">>, <<>>, <<"x">>, <<>>, <<>> >>
ExpectedMessages ==
  << <<>>, <<>>, << <<"h", "i">> >>, << <<"h", "i">> >>, << <<"h", "i">> >>,
     << <<"h", "i">>, <<>> >> >>
C16_EmptyCommitAndScenario ==
  LET k == Len(KeysOf(consumed)) IN
  /\ (k >= 1 /\ tmp = NoTmp)
       => (input = ExpectedInput[k] /\ messages = ExpectedMessages[k])
  /\ (k = 2 /\ pc = "unlock_draw") => screen.input = <<"h", "i">>
  /\ (pc = "log" /\ lastEvent = EventInput(KeyChar(Newline)) /\ preInput = <<>>)
       => (messages = Append(preMessages, <<>>) /\ input = <<>>)

C16_Witness ==
  /\ Len(KeysOf(consumed)) = 6
  /\ pc = "unlock_draw"
  /\ input = <<>>
  /\ messages = << <<"h", "i">>, <<>> >>
  /\ screen.messages = messages

\* C17: every received event other than 'q' takes the loop to its log
\* statement; the log statement hands the current buffer to the logger, once
\* per event; and whether or not the logger fails, that step and the one
\* after it leave buffer, history and render's result unchanged and the loop
\* Running.
C17_LogsBufferAndIgnoresLogFailure ==
  [][/\ (consumed' # consumed /\ Last(consumed') # EventInput(KeyChar(QuitChar)))
          => pc' \in {"log", "commit_push"}
     /\ (pc = "commit_push" /\ pc' # pc) => pc' = "log"
     /\ (pc = "log" /\ pc' # pc)
          => /\ pc' = "unlock_event"
             /\ logLast' = input
             /\ logCount' = Len(consumed)
             /\ input' = input /\ messages' = messages /\ result' = "none"
     /\ (logErr /\ pc' # pc)
          => /\ pc' = "lock_input_draw"
             /\ input' = input /\ messages' = messages /\ result' = "none"]_vars

C17_Witness ==
  /\ pc = "unlock_event"
  /\ logErr
  /\ logCount = 3
  /\ logLast = <<"a", "b">>
  /\ input = <<"a", "b">>
  /\ Running

\* C18: whenever the loop is about to lock the buffer both locks are free;
\* whenever it is about to lock the history it holds the buffer lock and the
\* history lock is free; inside either block it holds both; and once render
\* has returned both are free.  So no lock() of the loop ever finds the lock
\* held, in the draw section or in the event section.
C18_LockOrderAndRelease ==
  /\ pc \in {"lock_input_draw", "lock_input_event"}
       => (input_lock = Free /\ messages_lock = Free)
  /\ pc \in {"lock_messages_draw", "lock_messages_event"}
       => (input_lock = Loop /\ messages_lock = Free)
  /\ pc \in {"draw", "unlock_draw", "goto", "next", "commit_push", "log",
             "unlock_event"}
       => (input_lock = Loop /\ messages_lock = Loop)
  /\ pc \notin LoopPcs => (input_lock = Free /\ messages_lock = Free)

C18_Witness ==
  /\ pc = "lock_messages_event"
  /\ input_lock = Loop
  /\ messages_lock = Free
  /\ Len(consumed) >= 2
  /\ renders >= 3

\* C19: neither 'q' nor a newline is ever in the buffer, in a history entry
\* or in the string a commit is moving.
HasQuitOrNewline(str) == \E i \in 1..Len(str) : str[i] \in {QuitChar, Newline}
====
